---- MODULE Spec2Model ----
(***************************************************************************)
(* Model of the selvpc_licenses Ansible module                             *)
(* (ansible/modules/selvpc/selvpc_licenses.py).                            *)
(*                                                                         *)
(* One invocation of main() is a run of the state machine: the module      *)
(* parameters are read and the REST client is configured, then either the  *)
(* check-mode branch reports _system_state_change, or the real run walks   *)
(* the three `if` statements of main in order.  exit_json and fail_json    *)
(* end the process, which the model renders as pc = "done".                *)
(*                                                                         *)
(* The helpers imported from ansible.module_utils.selvpc_utils are not     *)
(* part of the source file; they are modelled from the specification       *)
(* (sections 4.1, 4.2, 4.3 and 7).                                         *)
(***************************************************************************)
EXTENDS Integers, FiniteSets, Sequences, TLC

VARIABLES
    provider,   \* the provider's LicenseRecords, by license id
    provider0,  \* history: the provider's LicenseRecords when the invocation began
    params,     \* module.params and module.check_mode of the invocation
    pc,         \* position of main
    outcome,    \* the terminal report (exit_json / fail_json / uncaught exception)
    reports,    \* number of terminal reports issued by the invocation
    calls,      \* kinds of Gateway calls issued by the invocation
    raised,     \* error kinds that occurred during the invocation
    ops,        \* operations main has executed, in order
    recon,      \* locals of the reconciliation (actual, parsed, to_add, to_del)
    run,        \* 1 for a first invocation, 2 for the re-run of the same task
    prev        \* what the first invocation was, for a re-run

vars == <<provider, provider0, params, pc, outcome, reports, calls, raised, ops, recon, run, prev>>

----------------------------------------------------------------------------
(* Bounds                                                                  *)

\* ids of LicenseRecords the provider can hold (its quota)
MaxRecords == 2

\* largest quantity of a LicenseRequirement
MaxQty == 1

\* the (region, type) keys
Keys == {"ru-1/office", "ru-2/office"}

Statuses == {"ACTIVE", "DOWN"}

LicenseIds == 1..MaxRecords

Quantities == (-1)..MaxQty

----------------------------------------------------------------------------
(* Data model                                                              *)

NoRecord == [key |-> "none", status |-> "none"]

LicenseRecord == [key : Keys, status : Statuses]

ProviderStates == [LicenseIds -> LicenseRecord \cup {NoRecord}]

LicenseRequirement == [key : Keys, quantity : Quantities]

\* the `licenses` parameter: a list of requirements, at most one per key;
\* the empty set stands for an absent (None) or empty list, both falsy
LicensesInputs ==
    {L \in SUBSET LicenseRequirement : \A a, b \in L : a.key = b.key => a = b}

\* license_id: 0 stands for None; ids are interchangeable, so one id is offered
LicenseIdInputs == {0, 1}

\* project_id: "" stands for None
ProjectIdInputs == {"", "p1"}

\* project_name: "" stands for None, "good" resolves to p1, "bad" resolves to nothing
ProjectNameInputs == {"", "good", "bad"}

ProjectRefInputs == [project_id : ProjectIdInputs, project_name : ProjectNameInputs]

ParamsInputs ==
    {[check_mode |-> c, state |-> s, list |-> l, license_id |-> i,
      project_id |-> p.project_id, project_name |-> p.project_name,
      licenses |-> L, force |-> f] :
        c \in BOOLEAN, s \in {"present", "absent"}, l \in BOOLEAN,
        i \in LicenseIdInputs, p \in ProjectRefInputs,
        L \in LicensesInputs, f \in BOOLEAN}

NoParams ==
    [check_mode |-> FALSE, state |-> "present", list |-> FALSE, license_id |-> 0,
     project_id |-> "", project_name |-> "", licenses |-> {}, force |-> FALSE]

EmptyMap == [k \in {} |-> 0]

NoRecon ==
    [done |-> FALSE, actual |-> EmptyMap, parsed |-> EmptyMap,
     to_add |-> EmptyMap, to_del |-> EmptyMap]

NoOutcome == [kind |-> "none", changed |-> FALSE, error |-> "none", keys |-> {}]

Ok(changed) == [kind |-> "ok", changed |-> changed, error |-> "none", keys |-> {}]

Fail(error, keys) == [kind |-> "fail", changed |-> FALSE, error |-> error, keys |-> keys]

NoPrev ==
    [check_mode |-> FALSE, op |-> "none", outcome |-> NoOutcome,
     raised |-> {}, recon |-> NoRecon]

ReadCalls == {"show", "resolve", "list"}

MutationCalls == {"create", "delete"}

----------------------------------------------------------------------------
(* Gateway and helpers of ansible.module_utils.selvpc_utils                *)

Put(m, k, v) == [x \in DOMAIN m \cup {k} |-> IF x = k THEN v ELSE m[x]]

Present(prov) == {i \in LicenseIds : prov[i] # NoRecord}

RecordsOf(prov, key) == {i \in Present(prov) : prov[i].key = key}

\* common._check_valid_quantity: no requirement has a negative quantity
\* (an absent or empty list has none)
check_valid_quantity(licenses) == \A r \in licenses : r.quantity >= 0

\* licenses.parse_licenses_to_add: the list of requirements as a mapping key -> quantity
parse_licenses_to_add(licenses) ==
    [k \in {r.key : r \in licenses} |-> (CHOOSE r \in licenses : r.key = k).quantity]

\* licenses.get_project_licenses_quantity, on the records listLicenses returned:
\* the records grouped by key, counted by status
get_project_licenses_quantity(prov) ==
    [k \in {prov[i].key : i \in Present(prov)} |->
        [ACTIVE |-> Cardinality({i \in RecordsOf(prov, k) : prov[i].status = "ACTIVE"}),
         DOWN |-> Cardinality({i \in RecordsOf(prov, k) : prov[i].status # "ACTIVE"})]]

\* one key of the Reconciler's loop (specification 4.1, steps 1 to 4)
reconcile_key(acc, key, before, after, force) ==
    LET desired == IF key \in DOMAIN after THEN after[key] ELSE 0
        actual == IF key \in DOMAIN before
                  THEN before[key].ACTIVE + before[key].DOWN ELSE 0
        active == key \in DOMAIN before /\ before[key].ACTIVE > 0
        delta == desired - actual
    IN  IF delta > 0 THEN [acc EXCEPT !.to_add = Put(@, key, delta)]
        ELSE IF delta < 0
             THEN IF ~active \/ force
                  THEN [acc EXCEPT !.to_del = Put(@, key, 0 - delta)]
                  ELSE [acc EXCEPT !.refused = @ \cup {key}]
             ELSE acc

RECURSIVE reconcile_keys(_, _, _, _, _)
reconcile_keys(todo, acc, before, after, force) ==
    IF todo = {} THEN acc
    ELSE LET key == CHOOSE k \in todo : TRUE
         IN  reconcile_keys(todo \ {key}, reconcile_key(acc, key, before, after, force),
                            before, after, force)

\* the Reconciler over the union of the keys of desired and actual
reconcile(before, after, force) ==
    reconcile_keys(DOMAIN before \cup DOMAIN after,
                   [to_add |-> EmptyMap, to_del |-> EmptyMap, refused |-> {}],
                   before, after, force)

\* common.compare_existed_and_needed_objects: the pair (to_add, to_delete)
compare_existed_and_needed_objects(before, after, force) ==
    LET r == reconcile(before, after, force) IN <<r.to_add, r.to_del>>

\* common.get_project_by_name: the project id, "" when no project has the name
get_project_by_name(project_name) == IF project_name = "good" THEN "p1" ELSE ""

\* licenses.show(license_id) of the client: the record, NotFound, or a provider failure
show_license(prov, license_id) ==
    (IF license_id \in Present(prov) THEN {"found"} ELSE {"NotFound"}) \cup {"ProviderError"}

----------------------------------------------------------------------------
(* selvpc_licenses.py: the check-mode computation                          *)

\* _check_license_exists: every exception of show is caught and turned into False
check_license_exists(prov, license_id) ==
    {[value |-> (r = "found"), raised |-> IF r = "found" THEN {} ELSE {r}] :
        r \in show_license(prov, license_id)}

Return(value, cs, rs, rc) ==
    [kind |-> "return", value |-> value, error |-> "none",
     calls |-> cs, raised |-> rs, recon |-> rc]

Raise(error, cs, rc) ==
    [kind |-> "raise", value |-> FALSE, error |-> error,
     calls |-> cs, raised |-> {error}, recon |-> rc]

\* mutant of system_state_change_reconcile: force is not passed to the comparison
system_state_change_reconcile_no_force(p, prov, cs) ==
    LET parsed_subnets == parse_licenses_to_add(p.licenses)
        actual_subnets == get_project_licenses_quantity(prov)
        pair == compare_existed_and_needed_objects(actual_subnets, parsed_subnets, FALSE)
        rc == [done |-> TRUE, actual |-> actual_subnets, parsed |-> parsed_subnets,
               to_add |-> pair[1], to_del |-> pair[2]]
    IN  {Raise("ProviderError", cs \cup {"list"}, NoRecon),
         Return(pair[1] # EmptyMap \/ pair[2] # EmptyMap, cs \cup {"list"}, {}, rc)}

\* lines 139-143: parse, list, compare, and the truth of `to_add or to_del`
system_state_change_reconcile(p, prov, cs) ==
    LET parsed_subnets == parse_licenses_to_add(p.licenses)
        actual_subnets == get_project_licenses_quantity(prov)
        pair == compare_existed_and_needed_objects(actual_subnets, parsed_subnets, p.force)
        rc == [done |-> TRUE, actual |-> actual_subnets, parsed |-> parsed_subnets,
               to_add |-> pair[1], to_del |-> pair[2]]
    IN  {Raise("ProviderError", cs \cup {"list"}, NoRecon),
         Return(pair[1] # EmptyMap \/ pair[2] # EmptyMap, cs \cup {"list"}, {}, rc)}

\* lines 126-143: the state == 'present' branch
system_state_change_present(p, prov) ==
    IF ~check_valid_quantity(p.licenses) THEN {Return(FALSE, {}, {}, NoRecon)}
    ELSE IF (p.project_name # "" \/ p.project_id # "") /\ p.licenses # {}
    THEN IF p.project_id = ""
         THEN {Raise("ProviderError", {"resolve"}, NoRecon)} \cup
              (IF get_project_by_name(p.project_name) = ""
               THEN {Return(FALSE, {"resolve"}, {"ProjectNotFound"}, NoRecon)}
               ELSE system_state_change_reconcile(p, prov, {"resolve"}))
         ELSE system_state_change_reconcile(p, prov, {})
    ELSE {Return(FALSE, {}, {}, NoRecon)}

\* _system_state_change: the possible results of the call, one per Gateway behaviour
system_state_change(p, prov) ==
    IF p.state = "absent" /\ p.license_id # 0
    THEN {Return(r.value, {"show"}, r.raised, NoRecon) :
            r \in check_license_exists(prov, p.license_id)}
    ELSE IF p.state = "present" THEN system_state_change_present(p, prov)
    ELSE {Return(FALSE, {}, {}, NoRecon)}

----------------------------------------------------------------------------
(* The three operations of ansible.module_utils.selvpc_utils.licenses.     *)
(* Each ends the invocation with exit_json or fail_json; its possible      *)
(* results are given one per Gateway behaviour.                            *)

Result(o, prov, cs, rs, rc) ==
    [outcome |-> o, provider |-> prov, calls |-> cs, raised |-> rs, recon |-> rc]

Free(prov) == LicenseIds \ Present(prov)

\* createLicenses(project, region, type, quantity): quantity new records of the key
create_licenses(prov, key, quantity, status) ==
    LET new == {i \in Free(prov) : Cardinality({j \in Free(prov) : j < i}) < quantity}
    IN  [i \in LicenseIds |-> IF i \in new THEN [key |-> key, status |-> status]
                                          ELSE prov[i]]

\* one createLicenses call per key of to_add; a call fails on a provider error,
\* and always when the quota has no room for the quantity
RECURSIVE run_creates(_, _, _, _)
run_creates(prov, todo, to_add, status) ==
    IF todo = {} THEN {[provider |-> prov, failed |-> FALSE]}
    ELSE LET key == CHOOSE k \in todo : TRUE
         IN  {[provider |-> prov, failed |-> TRUE]} \cup
             (IF Cardinality(Free(prov)) >= to_add[key]
              THEN run_creates(create_licenses(prov, key, to_add[key], status),
                               todo \ {key}, to_add, status)
              ELSE {})

\* deleteLicense(id): the record is removed
delete_record(prov, id) == [prov EXCEPT ![id] = NoRecord]

\* one deleteLicense call per selected record; a call may fail on a provider error
RECURSIVE run_deletes(_, _)
run_deletes(prov, todo) ==
    IF todo = {} THEN {[provider |-> prov, failed |-> FALSE]}
    ELSE LET id == CHOOSE i \in todo : TRUE
         IN  {[provider |-> prov, failed |-> TRUE]} \cup
             run_deletes(delete_record(prov, id), todo \ {id})

\* mutant of delete_choices: no record is selected, the deletions are skipped
delete_choices_none(prov, to_del) == {{}}

\* the records selected for deletion: any matching subset of the right size per key
delete_choices(prov, to_del) ==
    {D \in SUBSET Present(prov) :
        \A k \in Keys : Cardinality(D \cap RecordsOf(prov, k)) =
                            (IF k \in DOMAIN to_del THEN to_del[k] ELSE 0)}

\* add_licenses after the listing: reconcile, refuse on a blocked key, then apply
add_licenses_apply(p, prov, cs) ==
    LET parsed == parse_licenses_to_add(p.licenses)
        actual == get_project_licenses_quantity(prov)
        r == reconcile(actual, parsed, p.force)
        rc == [done |-> TRUE, actual |-> actual, parsed |-> parsed,
               to_add |-> r.to_add, to_del |-> r.to_del]
        cc == IF r.to_add # EmptyMap THEN cs \cup {"create"} ELSE cs
        changed == r.to_add # EmptyMap \/ r.to_del # EmptyMap
    IN  IF r.refused # {}
        THEN {Result(Fail("ActiveResourceConflict", r.refused), prov, cs, {}, rc)}
        ELSE UNION {UNION {
                IF c.failed
                THEN {Result(Fail("ProviderError", {}), c.provider, cc, {"ProviderError"}, rc)}
                ELSE UNION {
                        {IF d.failed
                         THEN Result(Fail("ProviderError", {}), d.provider,
                                     cc \cup {"delete"}, {"ProviderError"}, rc)
                         ELSE Result(Ok(changed), d.provider,
                                     IF D # {} THEN cc \cup {"delete"} ELSE cc, {}, rc) :
                            d \in run_deletes(c.provider, D)} :
                        D \in delete_choices(prov, r.to_del)} :
                c \in run_creates(prov, DOMAIN r.to_add, r.to_add, status)} :
             status \in Statuses}

\* add_licenses after the validation: resolve the project, list its licenses
add_licenses_resolved(p, prov, cs) ==
    {Result(Fail("ProviderError", {}), prov, cs \cup {"list"}, {"ProviderError"}, NoRecon)}
    \cup add_licenses_apply(p, prov, cs \cup {"list"})

\* licenses.add_licenses(module, client, project_id, project_name, licenses, force)
add_licenses(p, prov) ==
    IF ~check_valid_quantity(p.licenses)
    THEN {Result(Fail("InvalidQuantity", {}), prov, {}, {}, NoRecon)}
    ELSE IF p.project_id = ""
    THEN {Result(Fail("ProviderError", {}), prov, {"resolve"}, {"ProviderError"}, NoRecon)}
         \cup (IF get_project_by_name(p.project_name) = ""
               THEN {Result(Fail("ProjectNotFound", {}), prov, {"resolve"},
                            {"ProjectNotFound"}, NoRecon)}
               ELSE add_licenses_resolved(p, prov, {"resolve"}))
    ELSE add_licenses_resolved(p, prov, {})

\* licenses.delete_license(module, client, license_id)
delete_license(p, prov) ==
    {Result(Fail("ProviderError", {}), prov, {"delete"}, {"ProviderError"}, NoRecon)}
    \cup (IF p.license_id \in Present(prov)
          THEN {Result(Ok(TRUE), delete_record(prov, p.license_id), {"delete"}, {}, NoRecon)}
          ELSE {Result(Fail("NotFound", {}), prov, {"delete"}, {"NotFound"}, NoRecon)})

\* licenses.get_licenses(module, client, license_id, detailed, show_list)
get_licenses(p, prov) ==
    IF p.list
    THEN {Result(Fail("ProviderError", {}), prov, {"list"}, {"ProviderError"}, NoRecon),
          Result(Ok(FALSE), prov, {"list"}, {}, NoRecon)}
    ELSE {IF r = "found" THEN Result(Ok(FALSE), prov, {"show"}, {}, NoRecon)
                         ELSE Result(Fail(r, {}), prov, {"show"}, {r}, NoRecon) :
            r \in show_license(prov, p.license_id)}

----------------------------------------------------------------------------
(* selvpc_licenses.py: main                                                *)

\* mutant of delete_selected: the state is not tested
delete_selected_any_state(p) == p.license_id # 0

\* line 185: state == "absent" and license_id
delete_selected(p) == p.state = "absent" /\ p.license_id # 0

\* lines 188-189: state == "present" and licenses and (project_id or project_name)
add_selected(p) ==
    p.state = "present" /\ p.licenses # {} /\ (p.project_id # "" \/ p.project_name # "")

\* lines 188, 193: state == "present" and (license_id and not show_list or show_list)
get_selected(p) ==
    p.state = "present" /\ ((p.license_id # 0 /\ ~p.list) \/ p.list)

Init ==
    /\ provider \in ProviderStates
    /\ provider0 = provider
    /\ params = NoParams
    /\ pc = "idle"
    /\ outcome = NoOutcome
    /\ reports = 0
    /\ calls = {}
    /\ raised = {}
    /\ ops = <<>>
    /\ recon = NoRecon
    /\ run = 1
    /\ prev = NoPrev

\* lines 148-180: read the parameters and configure the REST client; a client that
\* cannot be constructed ends the invocation with fail_json
setup(p) ==
    /\ params' = p
    /\ calls' = {}
    /\ ops' = <<>>
    /\ recon' = NoRecon
    /\ provider0' = provider
    /\ UNCHANGED provider
    /\ \/ /\ pc' = "check_mode"
          /\ outcome' = NoOutcome
          /\ reports' = 0
          /\ raised' = {}
       \/ /\ pc' = "done"
          /\ outcome' = Fail("ClientError", {})
          /\ reports' = 1
          /\ raised' = {"ClientError"}

\* an invocation of the module with any parameters
main_start ==
    /\ pc = "idle"
    /\ \E p \in ParamsInputs : setup(p)
    /\ UNCHANGED <<run, prev>>

\* the same task invoked again, in check mode or for real, after the first ended
main_again ==
    /\ pc = "done"
    /\ run = 1
    /\ run' = 2
    /\ prev' = [check_mode |-> params.check_mode,
                op |-> IF ops = <<>> THEN "none" ELSE ops[Len(ops)],
                outcome |-> outcome, raised |-> raised, recon |-> recon]
    /\ \E c \in BOOLEAN : setup([params EXCEPT !.check_mode = c])

\* an operation of module_utils runs and ends the invocation with its report
execute(op, results) ==
    \E r \in results :
        /\ outcome' = r.outcome
        /\ provider' = r.provider
        /\ calls' = calls \cup r.calls
        /\ raised' = raised \cup r.raised
        /\ recon' = r.recon
        /\ ops' = Append(ops, op)
        /\ reports' = reports + 1
        /\ pc' = "done"
        /\ UNCHANGED <<provider0, params, run, prev>>

goto(label) ==
    /\ pc' = label
    /\ UNCHANGED <<provider, provider0, params, outcome, reports, calls, raised, ops, recon, run, prev>>

\* mutant of main_check_mode: check mode is not honoured, the real run follows
main_check_mode_ignored ==
    /\ pc = "check_mode"
    /\ goto("if_absent")

\* lines 182-183: in check mode, report _system_state_change and exit; an exception
\* out of _system_state_change ends the invocation as a failure
main_check_mode ==
    /\ pc = "check_mode"
    /\ IF params.check_mode
       THEN \E r \in system_state_change(params, provider) :
               /\ outcome' = IF r.kind = "return" THEN Ok(r.value) ELSE Fail(r.error, {})
               /\ calls' = calls \cup r.calls
               /\ raised' = raised \cup r.raised
               /\ recon' = r.recon
               /\ reports' = reports + 1
               /\ pc' = "done"
               /\ UNCHANGED <<provider, provider0, params, ops, run, prev>>
       ELSE goto("if_absent")

\* lines 185-186
main_if_absent ==
    /\ pc = "if_absent"
    /\ IF delete_selected(params)
       THEN execute("delete", delete_license(params, provider))
       ELSE goto("if_present")

\* lines 188-191
main_if_present_add ==
    /\ pc = "if_present"
    /\ IF add_selected(params)
       THEN execute("add", add_licenses(params, provider))
       ELSE goto("if_get")

\* lines 193-195
main_if_present_get ==
    /\ pc = "if_get"
    /\ IF get_selected(params)
       THEN execute("get", get_licenses(params, provider))
       ELSE goto("fail")

\* line 196: fail_json(msg="No params for 'licenses' operations.")
main_fail ==
    /\ pc = "fail"
    /\ outcome' = Fail("MissingParameters", {})
    /\ reports' = reports + 1
    /\ pc' = "done"
    /\ UNCHANGED <<provider, provider0, params, calls, raised, ops, recon, run, prev>>

Next ==
    \/ main_start
    \/ main_again
    \/ main_check_mode
    \/ main_if_absent
    \/ main_if_present_add
    \/ main_if_present_get
    \/ main_fail

Spec == Init /\ [][Next]_vars

----------------------------------------------------------------------------
(* Claims                                                                  *)

Ended == pc = "done"

ClientFailed == "ClientError" \in raised

\* errors of the transport, which a run may or may not meet
TransportErrors == {"ProviderError", "ClientError"}

HasProjectRef == params.project_id # "" \/ params.project_name # ""

HasNegativeQuantity == \E r \in params.licenses : r.quantity < 0

\* the inputs select the reconciliation: state=present, licenses and a project
ReconcileRequested == params.state = "present" /\ params.licenses # {} /\ HasProjectRef

\* no actionable combination of inputs
NothingRequested ==
    \/ params.state = "absent" /\ params.license_id = 0
    \/ /\ params.state = "present"
       /\ ~(params.licenses # {} /\ HasProjectRef)
       /\ params.license_id = 0
       /\ ~params.list

DesiredOf(rc, k) == IF k \in DOMAIN rc.parsed THEN rc.parsed[k] ELSE 0

ActualOf(rc, k) ==
    IF k \in DOMAIN rc.actual THEN rc.actual[k].ACTIVE + rc.actual[k].DOWN ELSE 0

ActiveOf(rc, k) == k \in DOMAIN rc.actual /\ rc.actual[k].ACTIVE > 0

\* keys whose required deletion is blocked by an ACTIVE record
BlockedKeys(rc, force) ==
    {k \in Keys : DesiredOf(rc, k) < ActualOf(rc, k) /\ ActiveOf(rc, k) /\ ~force}

\* C1: the `changed` value a check-mode invocation reports is the one a real
\* invocation with the same inputs against the same provider state reports, and a
\* real run that fails is not reported by check mode as a success.  Stated on a
\* check-mode invocation followed by the real run of the same task, neither of
\* them meeting a transport error.
C1_CheckModeAgreesWithRealRun ==
    (/\ Ended
     /\ run = 2
     /\ prev.check_mode
     /\ ~params.check_mode
     /\ prev.raised \cap TransportErrors = {}
     /\ raised \cap TransportErrors = {})
    => /\ outcome.kind = prev.outcome.kind
       /\ outcome.changed = prev.outcome.changed

\* C2: a check-mode invocation issues no Gateway mutation call, only reads, and
\* leaves the provider's LicenseRecords as they were when it began.
C2_CheckModeIsReadOnly ==
    (params.check_mode /\ pc # "idle")
    => /\ calls \subseteq ReadCalls
       /\ provider = provider0
       /\ ops = <<>>

\* a check-mode invocation has ended whose reconciliation found licenses to create
C2_Witness ==
    /\ Ended
    /\ params.check_mode
    /\ recon.done
    /\ recon.to_add # EmptyMap
    /\ outcome = Ok(TRUE)
    /\ "list" \in calls

\* C3: a negative quantity in a requirement ends the invocation in an
\* InvalidQuantity failure with no Gateway call issued, in check mode as in a real
\* run.  Stated for the invocations whose inputs select the reconciliation.
C3_NegativeQuantityFails ==
    (Ended /\ ~ClientFailed /\ ReconcileRequested /\ HasNegativeQuantity)
    => /\ outcome.kind = "fail"
       /\ outcome.error = "InvalidQuantity"
       /\ calls = {}

\* C4: when the reconciliation needs a deletion for a key that has an ACTIVE
\* record and force is false, the invocation fails with ActiveResourceConflict
\* naming the key, and issues no deleteLicense call.
C4_ActiveConflictFails ==
    (Ended /\ recon.done /\ BlockedKeys(recon, params.force) # {})
    => /\ outcome.kind = "fail"
       /\ outcome.error = "ActiveResourceConflict"
       /\ BlockedKeys(recon, params.force) \subseteq outcome.keys
       /\ "delete" \notin calls

\* C5: the result of the reconciliation is exactly, for every key (a missing key
\* counting as 0): to_add[key] = desired - actual iff desired > actual;
\* to_delete[key] = actual - desired iff desired < actual and (no record of the
\* key is ACTIVE or force is true); no key is in both maps.
C5_ReconcilerResult ==
    recon.done =>
        /\ DOMAIN recon.to_add \subseteq Keys
        /\ DOMAIN recon.to_del \subseteq Keys
        /\ DOMAIN recon.to_add \cap DOMAIN recon.to_del = {}
        /\ \A k \in Keys :
            /\ k \in DOMAIN recon.to_add <=> DesiredOf(recon, k) > ActualOf(recon, k)
            /\ k \in DOMAIN recon.to_add =>
                    recon.to_add[k] = DesiredOf(recon, k) - ActualOf(recon, k)
            /\ k \in DOMAIN recon.to_del <=>
                    /\ DesiredOf(recon, k) < ActualOf(recon, k)
                    /\ (~ActiveOf(recon, k) \/ params.force)
            /\ k \in DOMAIN recon.to_del =>
                    recon.to_del[k] = ActualOf(recon, k) - DesiredOf(recon, k)

\* a reconciliation that creates for one key and, with force, deletes ACTIVE
\* records of a key present only in actual
C5_Witness ==
    /\ recon.done
    /\ params.force
    /\ recon.to_add # EmptyMap
    /\ \E k \in DOMAIN recon.to_del :
        /\ k \notin DOMAIN recon.parsed
        /\ recon.actual[k].ACTIVE > 0

\* C6: with no intervening mutation a second reconciliation yields the same
\* to_add/to_delete as the first; and once every create and delete of a first
\* real run has been applied successfully, the second invocation of the same task
\* reconciles to empty maps and reports changed = false.
C6_IdempotentConvergent ==
    (Ended /\ run = 2 /\ recon.done /\ prev.recon.done)
    => /\ prev.check_mode =>
            /\ recon.to_add = prev.recon.to_add
            /\ recon.to_del = prev.recon.to_del
       /\ (~prev.check_mode /\ prev.op = "add" /\ prev.outcome.kind = "ok") =>
            /\ recon.to_add = EmptyMap
            /\ recon.to_del = EmptyMap
            /\ outcome = Ok(FALSE)

\* a second invocation has ended after a first real run applied creates and deletes
C6_Witness ==
    /\ Ended
    /\ run = 2
    /\ recon.done
    /\ ~prev.check_mode
    /\ prev.op = "add"
    /\ prev.outcome = Ok(TRUE)
    /\ prev.recon.to_add # EmptyMap
    /\ prev.recon.to_del # EmptyMap
    /\ outcome = Ok(FALSE)

\* C7: every error that occurs during an invocation (a failing Gateway call, a
\* project name that cannot be resolved, a client that cannot be constructed) ends
\* the invocation in a failure that carries that error; none is swallowed.
C7_ErrorsAreTerminal ==
    (Ended /\ raised # {})
    => /\ outcome.kind = "fail"
       /\ outcome.error \in raised

\* C8: with no actionable combination of inputs the invocation ends in a
\* MissingParameters failure and issues no Gateway call, in check mode as in a
\* real run.
C8_MissingParametersFails ==
    (Ended /\ ~ClientFailed /\ NothingRequested)
    => /\ outcome.kind = "fail"
       /\ outcome.error = "MissingParameters"
       /\ calls = {}

\* C9: an invocation with list=true issues no createLicenses and no deleteLicense
\* call, whatever the other inputs, and leaves the provider's LicenseRecords
\* unchanged.
C9_ListIsReadOnly ==
    (params.list /\ pc # "idle")
    => /\ calls \cap MutationCalls = {}
       /\ provider = provider0

\* C10: an invocation ends with exactly one terminal report; a real run executes
\* at most one operation, selected in the order delete-by-id (state=absent and
\* license_id), reconcile (state=present, licenses and a project), list/show
\* (state=present, license_id or list); nothing runs after an operation, and
\* delete-by-id never runs under state=present.
C10_OneOperationInOrder ==
    /\ reports <= 1
    /\ Len(ops) <= 1
    /\ ~Ended => (reports = 0 /\ ops = <<>>)
    /\ Ended =>
        /\ reports = 1
        /\ outcome.kind # "none"
        /\ ops =
            IF ClientFailed \/ params.check_mode THEN <<>>
            ELSE IF params.state = "absent" /\ params.license_id # 0 THEN <<"delete">>
            ELSE IF params.state = "present" /\ params.licenses # {} /\ HasProjectRef
                 THEN <<"add">>
            ELSE IF params.state = "present" /\ (params.license_id # 0 \/ params.list)
                 THEN <<"get">>
            ELSE <<>>
        /\ (~ClientFailed /\ ~params.check_mode /\ ops = <<>>) =>
                outcome.error = "MissingParameters"

\* a real run given licenses, a project, a license_id and list=true has reconciled
C10_Witness ==
    /\ Ended
    /\ ~params.check_mode
    /\ params.state = "present"
    /\ params.license_id # 0
    /\ params.list
    /\ ops = <<"add">>
    /\ reports = 1

====
